---- MODULE Spec2Model ----
(***************************************************************************)
(* Account lifecycle of the accounts app: signup, email verification,      *)
(* login/logout, password reset, the post_save profile hooks and the       *)
(* token generators, over the auth_user and user_profile tables.           *)
(*                                                                         *)
(* Every handler is cut at its database statements: the project runs in    *)
(* autocommit mode (no transaction.atomic, no select_for_update anywhere   *)
(* in the views), Model.save() writes the whole row, and each request      *)
(* works on the copies it loaded.  A handler is a chain of phases, each a  *)
(* function from the tables and the request's locals to the tables, the    *)
(* locals and, at the end, the response.  One request at a time may be     *)
(* preempted between two phases; the requests that overtake it run from    *)
(* their first phase to their response.                                    *)
(***************************************************************************)
EXTENDS Integers, Sequences, FiniteSets, TLC

(* ------------------------------ bounds -------------------------------- *)
MaxUsers == 2
\* Account creations, reset tokens issued, passwords reset, admin edits and
\* clock advances in one behaviour
MaxOps == 4
MaxAdminEdits == 1
TickSeconds == 43201
\* The activation counters saturate here
CountCap == 2

(* ------------------------- program constants -------------------------- *)
\* settings.PASSWORD_RESET_TIMEOUT, in seconds ("This link will expire in 24 hours")
PASSWORD_RESET_TIMEOUT == 86400
\* forms.CharField(min_length=8) and len(password) < 8
MinPasswordLength == 8

(* ------------------------------ inputs -------------------------------- *)
SignupEmails == {"A@x.com", "b@x.com"}
\* the address an identity provider reports: one nobody signs up with
ExternalEmails == {"g@idp.com"}
EmailInputs == SignupEmails \cup ExternalEmails

\* str.lower() on the addresses above ("a@x.com" is what "A@x.com" is stored as)
Lower(e) == IF e = "A@x.com" THEN "a@x.com" ELSE e

\* A password is the sequence of its characters' classes:
\* "U" upper, "l" lower, "d" digit, "s" one of !@#$%^&*(),.?":{}|<>, "o" other.
PwStrong == <<"U", "l", "l", "l", "l", "l", "d", "s">>       \* "Abcdef1!"
PwStrong2 == <<"U", "l", "l", "l", "l", "l", "d", "s", "s">> \* "Abcdef1!!"
PwWeak == <<"l", "l", "l", "l", "l", "l", "l", "l", "l", "l", "d">> \* "longenough1"
PasswordInputs == {PwStrong, PwStrong2, PwWeak}
\* (password, password_confirm) as posted
SignupPasswordPairs == {<<PwStrong, PwStrong>>, <<PwStrong, PwStrong2>>, <<PwWeak, PwWeak>>}
ResetPasswordPairs == {<<PwStrong, PwStrong>>, <<PwStrong2, PwStrong2>>, <<PwWeak, PwWeak>>}
\* every way the two fields are filled in
FormPairs == SignupPasswordPairs \cup ResetPasswordPairs \cup {<<PwStrong2, PwStrong>>}

HasClass(pw, c) == \E i \in 1..Len(pw) : pw[i] = c

\* clean_password without its last test, the one for a special character
clean_password_four_tests(pw) ==
    IF Len(pw) < MinPasswordLength THEN "password_too_short"
    ELSE IF ~HasClass(pw, "U") THEN "password_no_upper"
    ELSE IF ~HasClass(pw, "l") THEN "password_no_lower"
    ELSE IF ~HasClass(pw, "d") THEN "password_no_digit"
    ELSE "ok"

\* SignupForm.clean_password: the error code raised, or "ok".
clean_password(pw) ==
    IF Len(pw) < MinPasswordLength THEN "password_too_short"
    ELSE IF ~HasClass(pw, "U") THEN "password_no_upper"
    ELSE IF ~HasClass(pw, "l") THEN "password_no_lower"
    ELSE IF ~HasClass(pw, "d") THEN "password_no_digit"
    ELSE IF ~HasClass(pw, "s") THEN "password_no_special"
    ELSE "ok"

\* PasswordResetForm.clean_password without its test for a digit
PasswordResetForm_clean_password_no_digit_test(pw) ==
    IF Len(pw) < MinPasswordLength THEN "password_too_short"
    ELSE IF ~HasClass(pw, "U") THEN "password_no_upper"
    ELSE IF ~HasClass(pw, "l") THEN "password_no_lower"
    ELSE IF ~HasClass(pw, "s") THEN "password_no_special"
    ELSE "ok"

\* PasswordResetForm.clean_password: the error code raised, or "ok".
PasswordResetForm_clean_password(pw) ==
    IF Len(pw) < MinPasswordLength THEN "password_too_short"
    ELSE IF ~HasClass(pw, "U") THEN "password_no_upper"
    ELSE IF ~HasClass(pw, "l") THEN "password_no_lower"
    ELSE IF ~HasClass(pw, "d") THEN "password_no_digit"
    ELSE IF ~HasClass(pw, "s") THEN "password_no_special"
    ELSE "ok"

\* SignupForm(...).is_valid() without the email field: field cleaning, then
\* clean() comparing the two fields.
PasswordFormError(pw, confirm) ==
    IF clean_password(pw) # "ok" THEN clean_password(pw)
    ELSE IF Len(confirm) < MinPasswordLength THEN "confirm_too_short"
    ELSE IF pw # confirm THEN "password_mismatch"
    ELSE "ok"

\* PasswordResetForm(request.POST).is_valid(): the same two steps.
PasswordResetFormError(pw, confirm) ==
    IF PasswordResetForm_clean_password(pw) # "ok"
    THEN PasswordResetForm_clean_password(pw)
    ELSE IF Len(confirm) < MinPasswordLength THEN "confirm_too_short"
    ELSE IF pw # confirm THEN "password_mismatch"
    ELSE "ok"

(* ------------------------------ values -------------------------------- *)
\* The mutable field a token's hash is computed over: user.email (n = 0) or
\* user.password, a salted hash (n >= 1 is the salt drawn by make_password).
EmailField(e) == [s |-> <<e>>, n |-> 0]
NoPassword == [s |-> <<>>, n |-> 0]

\* None for a token column and for a DateTimeField
NoTime == -1
NoToken == [wf |-> FALSE, ts |-> 0, salt |-> "", pk |-> 0, field |-> NoPassword]
GarbageToken == [wf |-> FALSE, ts |-> 0, salt |-> "garbage", pk |-> 0, field |-> NoPassword]

NoUser == [email |-> "", username |-> "", password |-> NoPassword, is_active |-> FALSE,
           date_joined |-> NoTime]
NoProfile == [role |-> "", email_verified |-> FALSE,
              email_verification_token |-> NoToken, email_verification_created |-> NoTime,
              password_reset_token |-> NoToken, password_reset_created |-> NoTime]

(* --------------------------- accounts/tokens.py ----------------------- *)
\* Neither subclass overrides key_salt: both sign under the salt of the
\* class they extend.
EmailVerificationKeySalt == "django.contrib.auth.tokens.PasswordResetTokenGenerator"
PasswordResetKeySalt == "django.contrib.auth.tokens.PasswordResetTokenGenerator"

key_salt(gen) == IF gen = "verify" THEN EmailVerificationKeySalt ELSE PasswordResetKeySalt

\* _make_hash_value: str(pk) + str(timestamp) + str(field).  The token carries
\* the timestamp and the ids of this model have one digit, so here the
\* concatenation determines the triple; hash_text, further down, keeps the
\* text itself, for ids of any length.
EmailVerification_make_hash_value(pk, user, timestamp) ==
    [pk |-> pk, ts |-> timestamp, field |-> EmailField(user.email)]

PasswordReset_make_hash_value(pk, user, timestamp) ==
    [pk |-> pk, ts |-> timestamp, field |-> user.password]

make_hash_value(gen, pk, user, timestamp) ==
    IF gen = "verify" THEN EmailVerification_make_hash_value(pk, user, timestamp)
    ELSE PasswordReset_make_hash_value(pk, user, timestamp)

\* PasswordResetTokenGenerator._make_token_with_timestamp: "<ts>-<hmac>" with
\* hmac = salted_hmac(key_salt, hash_value, SECRET_KEY).
make_token_with_timestamp(gen, pk, user, timestamp) ==
    LET hv == make_hash_value(gen, pk, user, timestamp)
    IN  [wf |-> TRUE, ts |-> timestamp, salt |-> key_salt(gen), pk |-> hv.pk, field |-> hv.field]

make_token(gen, pk, user, t) == make_token_with_timestamp(gen, pk, user, t)

\* check_token with no limit on the token's age
check_token_unexpiring(gen, pk, user, token, t) ==
    /\ pk # 0
    /\ token.wf
    /\ make_token_with_timestamp(gen, pk, user, token.ts) = token

\* PasswordResetTokenGenerator.check_token against the user object the view
\* holds, at time t.
check_token(gen, pk, user, token, t) ==
    /\ pk # 0
    /\ token.wf
    /\ make_token_with_timestamp(gen, pk, user, token.ts) = token
    /\ ~(t - token.ts > PASSWORD_RESET_TIMEOUT)

\* urlsafe_base64_encode(force_bytes(pk)): the base64 text of str(pk)
encode_uid(pk) == [ok |-> TRUE, text |-> ToString(pk)]

\* force_str(urlsafe_base64_decode(uidb64)), None when decoding raises
decode_uid(uidb64) ==
    IF uidb64.ok THEN [none |-> FALSE, text |-> uidb64.text]
    ELSE [none |-> TRUE, text |-> ""]

UidInputs == {encode_uid(k) : k \in 1..MaxUsers}
             \cup {[ok |-> FALSE, text |-> "%%"], [ok |-> TRUE, text |-> "abc"]}

(* ------------------------------- state -------------------------------- *)
VARIABLES
    users,      \* auth_user: sequence of rows, pk = index
    profiles,   \* user_profile: for each user pk the sequence of rows whose user_id is pk
    origin,     \* how each auth_user row was created: "signup" or "external"
    salts,      \* password salts drawn so far
    made,       \* reset tokens produced by make_token so far
    mails,      \* send_mail calls: set of [to, kind, token]
    sessions,   \* pks with an authenticated session
    hist,       \* bookkeeping for the properties (never read by the handlers)
    now,        \* the clock, in seconds
    slow,       \* the preempted request: its locals and the phase it resumes at
    budget      \* state-changing operations still allowed (bounds the model)

vars == <<users, profiles, origin, salts, made, mails, sessions, hist, now, slow, budget>>

\* The tables and logs a phase works on.
World == [users |-> users, profiles |-> profiles, origin |-> origin, salts |-> salts,
          made |-> made, mails |-> mails, sessions |-> sessions, hist |-> hist]

SetWorld(w) ==
    /\ users' = w.users
    /\ profiles' = w.profiles
    /\ origin' = w.origin
    /\ salts' = w.salts
    /\ made' = w.made
    /\ mails' = w.mails
    /\ sessions' = w.sessions
    /\ hist' = w.hist

Pks == 1..Len(users)

\* A request: what was submitted, and the handler's locals.
IdleProc == [op |-> "none", pc |-> "idle", email |-> "", uidb64 |-> encode_uid(0),
             token |-> NoToken, method |-> "GET", password |-> <<>>,
             password_confirm |-> <<>>,
             pk |-> 0, user |-> NoUser, profile |-> NoProfile]

\* What a phase returns: the request goes on to its next phase, or ends.
Cont(w, rec, pc) == [w |-> w, rec |-> [rec EXCEPT !.pc = pc], out |-> ""]
Done(w, rec, outcome) == [w |-> w, rec |-> [rec EXCEPT !.pc = "idle"], out |-> outcome]

(* ---------------------------- queries --------------------------------- *)
\* User.objects.filter(email=email)
ByEmail(us, email) == {k \in 1..Len(us) : us[k].email = email}
\* User.objects.filter(username=username)
ByUsername(us, name) == {k \in 1..Len(us) : us[k].username = name}

\* User.objects.get(pk=uid) for the text decode_uid returned: the pk, 0 for
\* DoesNotExist, -1 for the ValueError of a text that is no number.
GetByPk(us, uid) ==
    IF uid.none THEN 0
    ELSE IF \E k \in 0..(MaxUsers + 2) : ToString(k) = uid.text
         THEN LET k == CHOOSE k \in 0..(MaxUsers + 2) : ToString(k) = uid.text
              IN  IF k \in 1..Len(us) THEN k ELSE 0
         ELSE -1

\* User.objects.get(email=email): the pk, 0 for DoesNotExist, -1 for
\* MultipleObjectsReturned.
GetByEmail(us, email) ==
    IF ByEmail(us, email) = {} THEN 0
    ELSE IF Cardinality(ByEmail(us, email)) > 1 THEN -1
    ELSE CHOOSE k \in ByEmail(us, email) : TRUE

\* set_password / create_user: make_password draws a fresh salt
Hashed(pw, salt) == [s |-> pw, n |-> salt]
\* check_password
check_password(pw, stored) == stored.n >= 1 /\ stored.s = pw

(* --------------------------- accounts/signals.py ---------------------- *)
\* hasattr(instance, 'profile') on an instance with no cached profile: a
\* query for the row.
HasProfile(profs, pk) == Len(profs[pk]) > 0

\* INSERT into user_profile under the UNIQUE(user_id) of the OneToOneField:
\* the table after the insert, or unchanged when IntegrityError is raised.
ProfileInsertOk(profs, pk) == Len(profs[pk]) = 0
\* an INSERT with no UNIQUE(user_id) to refuse it
ProfileInsertUnchecked(profs, pk, row) == [profs EXCEPT ![pk] = Append(@, row)]

ProfileInsert(profs, pk, row) ==
    IF ProfileInsertOk(profs, pk) THEN [profs EXCEPT ![pk] = Append(@, row)] ELSE profs

\* The row create_user_profile inserts.
HookProfile == [NoProfile EXCEPT !.role = "user", !.email_verified = TRUE]

\* create_user_profile, post_save of a created User
create_user_profile(profs, pk) ==
    IF ~HasProfile(profs, pk) THEN ProfileInsert(profs, pk, HookProfile) ELSE profs

\* UPDATE of the profile row(s) of pk with the instance's fields
ProfileUpdate(profs, pk, row) == [profs EXCEPT ![pk] = [i \in 1..Len(@) |-> row]]

\* save_user_profile, post_save of every User save: instance.profile.save()
\* on the profile object the request holds
save_user_profile(profs, pk, row) == ProfileUpdate(profs, pk, row)

\* The receivers connected to post_save of User once the application has
\* loaded accounts.signals (the profile "enforced by an on-create hook").
post_save_receivers == {"create_user_profile", "save_user_profile"}

\* post_save of a User row just inserted.  save_user_profile runs too, on
\* the profile just inserted, and changes nothing.
post_save_created(profs, pk) ==
    IF "create_user_profile" \in post_save_receivers
    THEN create_user_profile(profs, pk) ELSE profs

\* post_save of a User row updated by a request that holds profile row.
post_save_updated(profs, pk, row) ==
    IF "save_user_profile" \in post_save_receivers
    THEN save_user_profile(profs, pk, row) ELSE profs

(* --------------------------- bookkeeping ------------------------------ *)
Bump(n) == IF n < CountCap THEN n + 1 ELSE n

NewAccount(h) == [h EXCEPT !.activations = Append(@, 0), !.verified = Append(@, FALSE)]

\* The reset tokens issued for pk that were computed from another password
\* hash than the one being written.
Outdated(w, pk, hash) == {<<pk, t>> : t \in {x \in w.made : x.pk = pk /\ x.field # hash}}

(* ------------------------------ signup -------------------------------- *)
\* SignupForm(request.POST).is_valid(): the error code, or "ok"
SignupFormError(us, email, pw, confirm) ==
    IF ByEmail(us, Lower(email)) # {} THEN "email_exists"
    ELSE PasswordFormError(pw, confirm)

\* views.signup, lines 129-134
SignupForm(w, rec) ==
    LET err == SignupFormError(w.users, rec.email, rec.password, rec.password_confirm)
    IN  IF err = "ok" THEN Cont(w, [rec EXCEPT !.email = Lower(rec.email)], "signup_create")
        ELSE Done(w, rec, err)

\* The auth_user row create_user inserts (lines 137-142).
SignupUser(rec, salt, t) ==
    [email |-> rec.email, username |-> rec.email,
     password |-> Hashed(rec.password, salt), is_active |-> FALSE, date_joined |-> t]

\* The user_profile row the view inserts (lines 149-153).
SignupProfile(token, t) ==
    [NoProfile EXCEPT !.role = "user",
                      !.email_verification_token = token,
                      !.email_verification_created = t]

\* views.signup, lines 137-192: create_user with its post_save hook, make_token,
\* UserProfile.objects.create, send_mail; any exception is caught at line 190.
SignupCreate(w, rec, t, delivered) ==
    LET pk == Len(w.users) + 1
        row == SignupUser(rec, w.salts + 1, t)
        token == make_token("verify", pk, row, t)
        hooked == post_save_created(Append(w.profiles, <<>>), pk)
        created == [w EXCEPT !.users = Append(@, row),
                             !.origin = Append(@, "signup"),
                             !.salts = @ + 1,
                             !.profiles = ProfileInsert(hooked, pk, SignupProfile(token, t)),
                             !.hist = NewAccount(@)]
        mailed == [created EXCEPT !.mails = @ \cup {[to |-> rec.email, kind |-> "verify",
                                                     token |-> token]}]
    IN  IF ByUsername(w.users, rec.email) # {}
        THEN Done(w, rec, "error")                                   \* auth_user.username
        ELSE IF ~ProfileInsertOk(hooked, pk)
        THEN Done(created, [rec EXCEPT !.pk = pk], "error")          \* user_profile.user_id
        ELSE Done(mailed, [rec EXCEPT !.pk = pk, !.token = token],
                  IF delivered THEN "registered" ELSE "error")

(* --------------------------- verify_email ----------------------------- *)
\* views.verify_email, lines 219-220: decode_uid and User.objects.get(pk=uid)
VerifyLoad(w, rec) ==
    LET pk == GetByPk(w.users, decode_uid(rec.uidb64))
    IN  IF pk = 0 THEN Done(w, rec, "invalid_link")        \* User.DoesNotExist, line 246
        ELSE IF pk < 0 THEN Done(w, rec, "error")          \* ValueError, line 249
        ELSE Cont(w, [rec EXCEPT !.pk = pk, !.user = w.users[pk]], "verify_check")

\* views.verify_email, lines 221-234: user.profile, check_token, already verified?
VerifyCheck(w, rec, t) ==
    IF Len(w.profiles[rec.pk]) # 1 THEN Done(w, rec, "error")
    ELSE IF ~check_token("verify", rec.pk, rec.user, rec.token, t)
    THEN Done(w, rec, "invalid_token")
    ELSE IF w.profiles[rec.pk][1].email_verified THEN Done(w, rec, "already_verified")
    ELSE Cont(w, [rec EXCEPT !.profile = w.profiles[rec.pk][1],
                             !.user = [rec.user EXCEPT !.is_active = TRUE]],
              "verify_save_user")

\* views.verify_email, line 235: user.save() writes the auth_user row, and its
\* post_save runs save_user_profile on the profile loaded at line 221.
VerifySaveUser(w, rec) ==
    Cont([w EXCEPT !.users[rec.pk] = rec.user,
                   !.profiles = post_save_updated(@, rec.pk, rec.profile),
                   !.hist.activations[rec.pk] = Bump(@)],
         rec, "verify_save_profile")

\* verify_email clearing the token without marking the email verified
UnmarkedProfile(profile) ==
    [profile EXCEPT !.email_verification_token = NoToken,
                    !.email_verification_created = NoTime]

\* The profile as verify_email saves it (lines 237-239).
VerifiedProfile(profile) ==
    [profile EXCEPT !.email_verified = TRUE,
                    !.email_verification_token = NoToken,
                    !.email_verification_created = NoTime]

\* views.verify_email, lines 237-244
VerifySaveProfile(w, rec) ==
    Done([w EXCEPT !.profiles = ProfileUpdate(@, rec.pk, VerifiedProfile(rec.profile)),
                   !.hist.verified[rec.pk] = TRUE],
         rec, "verified")

(* ------------------------------- login -------------------------------- *)
\* login_view without the is_active test of lines 295-300
LoginUserUnchecked(w, rec) ==
    LET email == Lower(rec.email)
        pk == GetByEmail(w.users, email)
    IN  IF pk = 0 THEN Done(w, rec, "invalid_credentials")
        ELSE IF pk < 0 THEN Done(w, rec, "error")
        ELSE Cont(w, [rec EXCEPT !.pk = pk, !.email = email], "login_profile")

\* views.login_view, lines 284-300: User.objects.get(email=email), is_active
LoginUser(w, rec) ==
    LET email == Lower(rec.email)
        pk == GetByEmail(w.users, email)
    IN  IF pk = 0 THEN Done(w, rec, "invalid_credentials")  \* User.DoesNotExist, line 323
        ELSE IF pk < 0 THEN Done(w, rec, "error")           \* MultipleObjectsReturned
        ELSE IF ~w.users[pk].is_active THEN Done(w, [rec EXCEPT !.pk = pk], "not_active")
        ELSE Cont(w, [rec EXCEPT !.pk = pk, !.email = email], "login_profile")

\* views.login_view, lines 303-308: user.profile.email_verified
LoginProfile(w, rec) ==
    IF Len(w.profiles[rec.pk]) # 1 THEN Done(w, rec, "error")
    ELSE IF ~w.profiles[rec.pk][1].email_verified THEN Done(w, rec, "not_verified")
    ELSE Cont(w, rec, "login_auth")

\* django.contrib.auth.authenticate with ModelBackend: the user of that
\* username, when the password matches and the row is active; 0 for None.
authenticate(us, username, pw) ==
    IF \E k \in ByUsername(us, username) : check_password(pw, us[k].password) /\ us[k].is_active
    THEN CHOOSE k \in ByUsername(us, username) : TRUE
    ELSE 0

\* views.login_view, lines 311-314: authenticate(), then login(), whose
\* user_logged_in signal runs update_last_login: user.save(update_fields=
\* ["last_login"]), and the post_save of that save has save_user_profile load
\* the profile of the user object authenticate() returned.
LoginAuth(w, rec) ==
    LET who == authenticate(w.users, rec.email, rec.password)
    IN  IF who = 0 THEN Done(w, rec, "invalid_credentials")
        ELSE IF Len(w.profiles[who]) # 1 THEN Done(w, rec, "error")
        ELSE Cont(w, [rec EXCEPT !.pk = who, !.user = w.users[who],
                                 !.profile = w.profiles[who][1]],
                  "login_save_profile")

\* The session login() stores carries get_session_auth_hash() of the user
\* object authenticate() returned, an HMAC of its password hash; a request
\* that presents the session is authenticated only while that is the HMAC
\* of the stored password hash.
SessionAccepted(us, pk, user) == us[pk].password = user.password

\* save_user_profile, line 30: instance.profile.save() writes the row it
\* loaded; the session is stored with the response (views.login_view, lines
\* 314-317).
LoginSaveProfile(w, rec) ==
    Done([w EXCEPT !.profiles = post_save_updated(@, rec.pk, rec.profile),
                   !.sessions = IF SessionAccepted(w.users, rec.pk, rec.user)
                                THEN @ \cup {rec.pk} ELSE @],
         rec, "logged_in")

(* ----------------------- password_reset_request ----------------------- *)
\* PasswordResetRequestForm(request.POST).is_valid(): the error code, or "ok"
ResetRequestFormError(us, email) ==
    IF ByEmail(us, Lower(email)) = {} THEN "email_not_found" ELSE "ok"

\* views.password_reset_request, lines 371-380: the form, User.objects.get,
\* make_token
ResetRequestUser(w, rec, t) ==
    LET email == Lower(rec.email)
        pk == GetByEmail(w.users, email)
        token == make_token("reset", pk, w.users[pk], t)
    IN  IF ResetRequestFormError(w.users, rec.email) # "ok"
        THEN Done(w, rec, ResetRequestFormError(w.users, rec.email))
        ELSE IF pk <= 0 THEN Done(w, rec, "sent")     \* swallowed at lines 419-422
        ELSE Cont([w EXCEPT !.made = @ \cup {token}],
                  [rec EXCEPT !.email = email, !.pk = pk, !.user = w.users[pk],
                              !.token = token],
                  "reset_request_profile")

\* views.password_reset_request, line 383: user.profile
ResetRequestProfile(w, rec) ==
    IF Len(w.profiles[rec.pk]) # 1 THEN Done(w, rec, "sent")
    ELSE Cont(w, [rec EXCEPT !.profile = w.profiles[rec.pk][1]], "reset_request_save")

\* The profile saved with the token and no timestamp
RequestedProfileUnstamped(profile, token, t) ==
    [profile EXCEPT !.password_reset_token = token]

\* The profile as password_reset_request saves it (lines 384-385).
RequestedProfile(profile, token, t) ==
    [profile EXCEPT !.password_reset_token = token, !.password_reset_created = t]

\* password_reset_request undoing its profile.save() when send_mail raises
ResetRequestSaveRolledBack(w, rec, t, delivered) ==
    LET row == RequestedProfile(rec.profile, rec.token, t)
        mailed == [w EXCEPT !.mails = @ \cup {[to |-> rec.email, kind |-> "reset",
                                               token |-> rec.token]}]
    IN  IF delivered
        THEN Done([mailed EXCEPT !.profiles = ProfileUpdate(@, rec.pk, row)],
                  [rec EXCEPT !.profile = row], "sent")
        ELSE Done(mailed, rec, "sent")

\* views.password_reset_request, lines 384-429: profile.save() in autocommit,
\* send_mail, then the same message whether it returned or raised (the
\* exception is caught and logged at lines 421-422)
ResetRequestSave(w, rec, t, delivered) ==
    LET row == RequestedProfile(rec.profile, rec.token, t)
        saved == [w EXCEPT !.profiles = ProfileUpdate(@, rec.pk, row)]
        mailed == [saved EXCEPT !.mails = @ \cup {[to |-> rec.email, kind |-> "reset",
                                                   token |-> rec.token]}]
    IN  Done(mailed, [rec EXCEPT !.profile = row], "sent")

(* ----------------------- password_reset_confirm ----------------------- *)
\* views.password_reset_confirm, lines 449-450
ResetConfirmLoad(w, rec) ==
    LET pk == GetByPk(w.users, decode_uid(rec.uidb64))
    IN  IF pk = 0 THEN Done(w, rec, "invalid_link")        \* User.DoesNotExist, line 480
        ELSE IF pk < 0 THEN Done(w, rec, "error")          \* ValueError, line 483
        ELSE Cont(w, [rec EXCEPT !.pk = pk, !.user = w.users[pk]], "reset_confirm_check")

\* password_reset_confirm setting whatever password is posted, the form
\* never validated
ResetConfirmCheckUnvalidated(w, rec, t) ==
    IF Len(w.profiles[rec.pk]) # 1 THEN Done(w, rec, "error")
    ELSE IF ~check_token("reset", rec.pk, rec.user, rec.token, t)
    THEN Done(w, rec, "invalid_token")
    ELSE IF rec.method = "GET" THEN Done(w, rec, "form_shown")
    ELSE Cont([w EXCEPT !.salts = @ + 1],
              [rec EXCEPT !.profile = w.profiles[rec.pk][1],
                          !.user = [rec.user EXCEPT
                                       !.password = Hashed(rec.password, w.salts + 1)]],
              "reset_confirm_save_user")

\* password_reset_confirm with no check_token before the form
ResetConfirmCheckUnchecked(w, rec, t) ==
    LET err == PasswordResetFormError(rec.password, rec.password_confirm)
    IN  IF Len(w.profiles[rec.pk]) # 1 THEN Done(w, rec, "error")
        ELSE IF rec.method = "GET" THEN Done(w, rec, "form_shown")
        ELSE IF err # "ok" THEN Done(w, rec, err)
        ELSE Cont([w EXCEPT !.salts = @ + 1],
                  [rec EXCEPT !.profile = w.profiles[rec.pk][1],
                              !.user = [rec.user EXCEPT
                                           !.password = Hashed(rec.password, w.salts + 1)]],
                  "reset_confirm_save_user")

\* views.password_reset_confirm, lines 451-464: user.profile, check_token, the
\* form, set_password
ResetConfirmCheck(w, rec, t) ==
    LET err == PasswordResetFormError(rec.password, rec.password_confirm)
    IN  IF Len(w.profiles[rec.pk]) # 1 THEN Done(w, rec, "error")
        ELSE IF ~check_token("reset", rec.pk, rec.user, rec.token, t)
        THEN Done(w, rec, "invalid_token")
        ELSE IF rec.method = "GET" THEN Done(w, rec, "form_shown")
        ELSE IF err # "ok" THEN Done(w, rec, err)
        ELSE Cont([w EXCEPT !.salts = @ + 1],
                  [rec EXCEPT !.profile = w.profiles[rec.pk][1],
                              !.user = [rec.user EXCEPT
                                           !.password = Hashed(rec.password, w.salts + 1)]],
                  "reset_confirm_save_user")

\* views.password_reset_confirm, line 465: user.save() writes the auth_user
\* row, and its post_save runs save_user_profile on the profile loaded at
\* line 451.
ResetConfirmSaveUser(w, rec) ==
    Cont([w EXCEPT !.users[rec.pk] = rec.user,
                   !.profiles = post_save_updated(@, rec.pk, rec.profile),
                   !.hist.outdated = @ \cup Outdated(w, rec.pk, rec.user.password)],
         rec, "reset_confirm_save_profile")

\* The profile as password_reset_confirm saves it (lines 468-469).
ConsumedProfile(profile) ==
    [profile EXCEPT !.password_reset_token = NoToken, !.password_reset_created = NoTime]

\* views.password_reset_confirm, lines 468-474
ResetConfirmSaveProfile(w, rec) ==
    Done([w EXCEPT !.profiles = ProfileUpdate(@, rec.pk, ConsumedProfile(rec.profile)),
                   !.hist.resetWith = @ \cup {<<rec.pk, rec.token>>}],
         rec, "reset_ok")

(* --------------------------- running requests ------------------------- *)
\* The next phase of request rec at time t; delivered is what send_mail does
\* if this phase calls it with fail_silently=False.
Phase(w, rec, t, delivered) ==
    CASE rec.pc = "signup_form" -> SignupForm(w, rec)
      [] rec.pc = "signup_create" -> SignupCreate(w, rec, t, delivered)
      [] rec.pc = "verify_load" -> VerifyLoad(w, rec)
      [] rec.pc = "verify_check" -> VerifyCheck(w, rec, t)
      [] rec.pc = "verify_save_user" -> VerifySaveUser(w, rec)
      [] rec.pc = "verify_save_profile" -> VerifySaveProfile(w, rec)
      [] rec.pc = "login_user" -> LoginUser(w, rec)
      [] rec.pc = "login_profile" -> LoginProfile(w, rec)
      [] rec.pc = "login_auth" -> LoginAuth(w, rec)
      [] rec.pc = "login_save_profile" -> LoginSaveProfile(w, rec)
      [] rec.pc = "reset_request_user" -> ResetRequestUser(w, rec, t)
      [] rec.pc = "reset_request_profile" -> ResetRequestProfile(w, rec)
      [] rec.pc = "reset_request_save" -> ResetRequestSave(w, rec, t, delivered)
      [] rec.pc = "reset_confirm_load" -> ResetConfirmLoad(w, rec)
      [] rec.pc = "reset_confirm_check" -> ResetConfirmCheck(w, rec, t)
      [] rec.pc = "reset_confirm_save_user" -> ResetConfirmSaveUser(w, rec)
      [] rec.pc = "reset_confirm_save_profile" -> ResetConfirmSaveProfile(w, rec)

\* The whole handler, from the phase rec is at to its response.
RECURSIVE Run(_, _, _, _)
Run(w, rec, t, delivered) ==
    LET r == Phase(w, rec, t, delivered)
    IN  IF r.rec.pc = "idle" THEN r ELSE Run(r.w, r.rec, t, delivered)

\* What a step costs of the model's budget: new password hashes (accounts and
\* resets) and new reset tokens.
Cost(w, v) == (v.salts - w.salts) + (Cardinality(v.made) - Cardinality(w.made))

\* The model holds at most MaxUsers accounts.
Fits(v) == Len(v.users) <= MaxUsers

(* ------------------------------ requests ------------------------------ *)
SignupRequest(email, pw, confirm) ==
    [IdleProc EXCEPT !.op = "signup", !.pc = "signup_form", !.email = email,
                     !.password = pw, !.password_confirm = confirm, !.method = "POST"]

VerifyRequest(uidb64, token) ==
    [IdleProc EXCEPT !.op = "verify", !.pc = "verify_load", !.uidb64 = uidb64, !.token = token]

LoginRequest(email, pw) ==
    [IdleProc EXCEPT !.op = "login", !.pc = "login_user", !.email = email, !.password = pw,
                     !.method = "POST"]

ResetRequestRequest(email) ==
    [IdleProc EXCEPT !.op = "reset_request", !.pc = "reset_request_user", !.email = email,
                     !.method = "POST"]

ResetConfirmRequest(uidb64, token, method, pw, confirm) ==
    [IdleProc EXCEPT !.op = "reset_confirm", !.pc = "reset_confirm_load", !.uidb64 = uidb64,
                     !.token = token, !.method = method, !.password = pw,
                     !.password_confirm = confirm]

\* The token signup computed for a user at line 146: make_token is a
\* function of the row and of the second it ran in, which is date_joined.
SignupToken(pk) == make_token("verify", pk, users[pk], users[pk].date_joined)

\* What a caller can put in a link: the tokens the server has computed, and junk.
TokenInputs == made \cup {SignupToken(k) : k \in {j \in Pks : origin[j] = "signup"}}
               \cup {GarbageToken}

\* The links tried: every token the server computed, with the uid of its account, ...
VerifyLinks == {<<encode_uid(k), SignupToken(k)>> : k \in {j \in Pks : origin[j] = "signup"}}
ResetLinks == {<<encode_uid(t.pk), t>> : t \in made}
LinkInputs == VerifyLinks \cup ResetLinks
\* ... with the uid of another account, ...
CrossVerifyLinks ==
    {<<encode_uid(q[1]), SignupToken(q[2])>> :
        q \in {x \in Pks \X Pks : x[1] # x[2] /\ origin[x[2]] = "signup"}}
CrossResetLinks ==
    {<<encode_uid(q[1]), q[2]>> : q \in {x \in Pks \X made : x[2].pk # x[1]}}
\* ... and junk for a token, with every uid: of an account, of none, malformed.
GarbageLinks == {<<u, GarbageToken>> : u \in UidInputs}
JunkLinks == CrossVerifyLinks \cup CrossResetLinks \cup GarbageLinks

\* (method, password, password_confirm) of a password_reset_confirm request
ResetForms == {<<"GET", <<>>, <<>>>>} \cup {<<"POST", pp[1], pp[2]>> : pp \in ResetPasswordPairs}
\* the same, for the links that pass no check
JunkForms == {<<"POST", PwStrong, PwStrong>>}

LoginPasswords == {PwStrong, PwStrong2}
\* The links verify_email is tried with: its own, those of the other view,
\* its own with another uid, junk.
VerifyInputs == LinkInputs \cup CrossVerifyLinks \cup GarbageLinks
\* (link, form) of the password_reset_confirm requests tried
ConfirmInputs ==
    (ResetLinks \X ResetForms)
    \cup ((VerifyLinks \cup CrossResetLinks \cup GarbageLinks) \X JunkForms)

\* The requests that may be preempted: every kind, with the passwords a
\* preempted login and a preempted reset are posted with.
SlowLoginPasswords == {PwStrong}
SlowResetForms == {<<"POST", PwStrong2, PwStrong2>>}

Requests ==
    {SignupRequest(e, pp[1], pp[2]) : e \in SignupEmails, pp \in SignupPasswordPairs}
    \cup {VerifyRequest(l[1], l[2]) : l \in VerifyLinks}
    \cup {LoginRequest(e, pw) : e \in EmailInputs, pw \in SlowLoginPasswords}
    \cup {ResetRequestRequest(e) : e \in EmailInputs}
    \cup {ResetConfirmRequest(c[1][1], c[1][2], c[2][1], c[2][2], c[2][3]) :
             c \in ResetLinks \X SlowResetForms}

(* ------------------------------- Init --------------------------------- *)
Init ==
    /\ users = <<>>
    /\ profiles = <<>>
    /\ origin = <<>>
    /\ salts = 0
    /\ made = {}
    /\ mails = {}
    /\ sessions = {}
    /\ hist = [activations |-> <<>>, verified |-> <<>>, adminEdits |-> 0, resetWith |-> {},
               outdated |-> {}]
    /\ now = 0
    /\ slow = IdleProc
    /\ budget = MaxOps

(* ------------------------------ actions ------------------------------- *)
\* The step to result r (of Phase or Run) is taken if the model's bounds allow.
Take(r) ==
    /\ Fits(r.w)
    /\ budget' = budget - Cost(World, r.w)
    /\ budget' >= 0
    /\ SetWorld(r.w)
    /\ UNCHANGED now

\* send_mail(fail_silently=False) returns or raises; only signup lets the
\* exception reach its response, and only a valid form gets as far.
Deliveries(req) ==
    IF /\ req.op = "signup"
       /\ PasswordFormError(req.password, req.password_confirm) = "ok"
    THEN BOOLEAN ELSE {TRUE}

\* Requests that reach a write under some interleaving: the form they post
\* is valid, the token in their link was computed for the account of its
\* uid.  The others only read.
CanWrite(req) ==
    /\ req.op = "signup" =>
           /\ req.method = "POST"
           /\ PasswordFormError(req.password, req.password_confirm) = "ok"
    /\ req.op = "reset_confirm" =>
           /\ req.method = "POST"
           /\ PasswordResetFormError(req.password, req.password_confirm) = "ok"
    /\ req.op \in {"verify", "reset_confirm"} =>
           /\ req.token.wf
           /\ req.uidb64 = encode_uid(req.token.pk)

\* The five views, each served without interruption.
signup(email, pw, confirm) ==
    /\ \E delivered \in Deliveries(SignupRequest(email, pw, confirm)) :
          Take(Run(World, SignupRequest(email, pw, confirm), now, delivered))
    /\ UNCHANGED slow

verify_email(uidb64, token) ==
    /\ Take(Run(World, VerifyRequest(uidb64, token), now, TRUE))
    /\ UNCHANGED slow

login_view(email, pw) ==
    /\ Take(Run(World, LoginRequest(email, pw), now, TRUE))
    /\ UNCHANGED slow

password_reset_request(email) ==
    /\ Take(Run(World, ResetRequestRequest(email), now, TRUE))
    /\ UNCHANGED slow

password_reset_confirm(uidb64, token, method, pw, confirm) ==
    /\ Take(Run(World, ResetConfirmRequest(uidb64, token, method, pw, confirm), now, TRUE))
    /\ UNCHANGED slow

\* A request begins and is preempted after its first phase.
Preempt(req) ==
    /\ slow.pc = "idle"
    /\ CanWrite(req)
    /\ LET r == Phase(World, req, now, TRUE)
       IN  /\ r.rec.pc # "idle"
           /\ Take(r)
           /\ slow' = r.rec

\* The preempted request runs its next phase.
Resume ==
    /\ slow.pc # "idle"
    /\ \E delivered \in Deliveries(slow) :
          LET r == Phase(World, slow, now, delivered)
          IN  /\ Take(r)
              /\ slow' = IF r.rec.pc = "idle" THEN IdleProc ELSE r.rec

\* views.logout_view
logout_view(pk) ==
    /\ pk \in sessions
    /\ sessions' = sessions \ {pk}
    /\ UNCHANGED <<users, profiles, origin, salts, made, mails, hist, now, slow, budget>>

\* A social login saves a new User (is_active defaults to True, unusable
\* password) for an address no account has; post_save runs create_user_profile.
ExternalUser(email, salt, t) ==
    [email |-> email, username |-> "ext", password |-> Hashed(<<"!">>, salt),
     is_active |-> TRUE, date_joined |-> t]

ProvisionExternal(email) ==
    LET pk == Len(users) + 1 IN
    /\ Len(users) < MaxUsers
    /\ ByUsername(users, "ext") = {}
    /\ ByEmail(users, email) = {}
    /\ budget > 0
    /\ budget' = budget - 1
    /\ users' = Append(users, ExternalUser(email, salts + 1, now))
    /\ origin' = Append(origin, "external")
    /\ salts' = salts + 1
    /\ profiles' = post_save_created(Append(profiles, <<>>), pk)
    /\ hist' = NewAccount(hist)
    /\ UNCHANGED <<made, mails, sessions, now, slow>>

\* UserProfileAdmin change form saved with "email verified" unticked.
AdminUnverify(pk) ==
    /\ hist.adminEdits < MaxAdminEdits
    /\ pk \in Pks
    /\ Len(profiles[pk]) = 1
    /\ profiles[pk][1].email_verified
    /\ budget > 0
    /\ budget' = budget - 1
    /\ profiles' = ProfileUpdate(profiles, pk, [profiles[pk][1] EXCEPT !.email_verified = FALSE])
    /\ hist' = [hist EXCEPT !.adminEdits = @ + 1]
    /\ UNCHANGED <<users, origin, salts, made, mails, sessions, now, slow>>

Tick ==
    /\ budget > 0
    /\ budget' = budget - 1
    /\ now' = now + TickSeconds
    /\ UNCHANGED <<users, profiles, origin, salts, made, mails, sessions, hist, slow>>

Next ==
    \/ \E e \in SignupEmails, pp \in SignupPasswordPairs : signup(e, pp[1], pp[2])
    \/ \E l \in VerifyInputs : verify_email(l[1], l[2])
    \/ \E e \in EmailInputs, pw \in LoginPasswords : login_view(e, pw)
    \/ \E e \in EmailInputs : password_reset_request(e)
    \/ \E c \in ConfirmInputs :
          password_reset_confirm(c[1][1], c[1][2], c[2][1], c[2][2], c[2][3])
    \/ \E req \in Requests : Preempt(req)
    \/ Resume
    \/ \E pk \in sessions : logout_view(pk)
    \/ \E e \in ExternalEmails : ProvisionExternal(e)
    \/ \E pk \in Pks : AdminUnverify(pk)
    \/ Tick

Spec == Init /\ [][Next]_vars

\* The same system when the identity provider may report an address that
\* somebody also signs up with.
ProviderEmails == {Lower(e) : e \in SignupEmails}

NextShared ==
    \/ Next
    \/ \E e \in ProviderEmails : ProvisionExternal(e)

SpecShared == Init /\ [][NextShared]_vars

(* ----------------------------- properties ----------------------------- *)
SignupPks == {pk \in Pks : origin[pk] = "signup"}
ExternalPks == {pk \in Pks : origin[pk] = "external"}

\* The lifecycle states of spec section 4.3, read from the two tables.
Active(pk) == users[pk].is_active /\ Len(profiles[pk]) = 1 /\ profiles[pk][1].email_verified
PendingVerification(pk) ==
    ~users[pk].is_active /\ Len(profiles[pk]) = 1 /\ ~profiles[pk][1].email_verified

\* The response to request req served now, and the tables after it.
Outcome(req) == Run(World, req, now, TRUE).out
After(req) == Run(World, req, now, TRUE).w

\* Accounts made by signup for which no verify_email has answered "verified".
Unverified == {pk \in SignupPks : ~hist.verified[pk]}

\* The passwords a caller may try on account pk: the inputs, and the right one.
Guesses(pk) == PasswordInputs \cup {users[pk].password.s}

(* C1: an account created by signup for which no verify_email has succeeded  *)
(* never authenticates: it holds no session, and a login for its email with  *)
(* any password, the right one included, is answered "not active" or "not    *)
(* verified".                                                                *)
C1_UnverifiedNeverAuthenticates ==
    \A pk \in Unverified :
        /\ pk \notin sessions
        /\ \A pw \in Guesses(pk) :
              /\ Outcome(LoginRequest(users[pk].email, pw)) \in {"not_active", "not_verified"}
              /\ After(LoginRequest(users[pk].email, pw)).sessions = sessions

\* An unverified account refused with its right password while another
\* account is logged in.
C1_Witness ==
    /\ sessions # {}
    /\ \E pk \in Unverified :
          Outcome(LoginRequest(users[pk].email, users[pk].password.s)) = "not_active"

\* The step creates an account through signup.
SignupCreates == Len(users') = Len(users) + 1 /\ origin'[Len(users')] = "signup"

(* C2: every signup that creates an account leaves it in PendingVerification *)
(* (is_active false, email_verified false, a verification token and its      *)
(* timestamp stored on the profile) and attempts exactly one verification    *)
(* email.                                                                    *)
C2_SignupLeavesPendingVerification ==
    [][SignupCreates =>
          LET pk == Len(users')
              profile == profiles'[pk][1]
          IN  /\ ~users'[pk].is_active
              /\ Len(profiles'[pk]) = 1
              /\ ~profile.email_verified
              /\ profile.email_verification_token # NoToken
              /\ profile.email_verification_created # NoTime
              /\ Cardinality({m \in mails' \ mails :
                                 m.kind = "verify" /\ m.to = users'[pk].email}) = 1]_vars

(* C3: the profile of an account created by signup has email_verified false  *)
(* until a verify_email for the account succeeds; only the profiles          *)
(* provisioned for external identities start with email_verified true.       *)
C3_SignupProfileStartsUnverified ==
    \A pk \in Unverified : Len(profiles[pk]) = 1 => ~profiles[pk][1].email_verified

(* C4: after any sequence of signups, complete or failed part-way, and of    *)
(* external provisionings, every account has exactly one profile.            *)
C4_ExactlyOneProfile ==
    \A pk \in Pks : Len(profiles[pk]) = 1

\* A signup that failed before its email, next to a provisioned account.
C4_Witness ==
    /\ ExternalPks # {}
    /\ \E pk \in SignupPks : ~\E m \in mails : m.kind = "verify" /\ m.to = users[pk].email
    /\ \A pk \in Pks : Len(profiles[pk]) = 1

\* The verification links that pass check_token for account pk now.
ValidVerifyLinks(pk) ==
    {l \in LinkInputs : l[1] = encode_uid(pk) /\ check_token("verify", pk, users[pk], l[2], now)}

(* C5: verify_email called twice in sequence with the same valid token for   *)
(* a PendingVerification account: the first call answers "verified" and      *)
(* leaves the account Active, the second answers "already verified", and     *)
(* changes nothing: no field of any account or profile, no activation.       *)
C5_SecondVerifyIsNoOp ==
    \A pk \in Pks : \A l \in ValidVerifyLinks(pk) :
        LET req == VerifyRequest(l[1], l[2])
            first == Run(World, req, now, TRUE)
            second == Run(first.w, req, now, TRUE)
        IN  PendingVerification(pk) =>
              /\ first.out = "verified"
              /\ first.w.users[pk].is_active
              /\ first.w.profiles[pk][1].email_verified
              /\ first.w.hist.activations[pk] = Bump(hist.activations[pk])
              /\ second.out = "already_verified"
              /\ second.w = first.w

\* An account verified once, by one activation, whose link is tried again.
C5_Witness ==
    \E pk \in SignupPks :
        /\ hist.verified[pk]
        /\ hist.activations[pk] = 1
        /\ Active(pk)
        /\ Outcome(VerifyRequest(encode_uid(pk), SignupToken(pk))) = "already_verified"

\* The preempted request takes the step from phase pc to phase next.
SlowStep(pc, next) == slow.pc = pc /\ slow'.pc = next

(* C6: of two verify_email requests for the same PendingVerification account *)
(* with the same valid token that run concurrently, at most one performs the *)
(* activation: a request never writes the activation to an account that      *)
(* another request has made Active since it was loaded.                      *)
C6_OneConcurrentActivation ==
    [][SlowStep("verify_save_user", "verify_save_profile") => ~Active(slow.pk)]_vars

\* POSTs of password_reset_confirm with token t for account pk
ConfirmPosts(pk, t) ==
    {ResetConfirmRequest(encode_uid(pk), t, "POST", pp[1], pp[2]) : pp \in ResetPasswordPairs}

(* C7: a reset token is single-use: once a password_reset_confirm with token *)
(* t has succeeded for an account, every later password_reset_confirm with t *)
(* for it answers "invalid or expired" and leaves the password as it is.     *)
C7_ResetTokenSingleUse ==
    \A u \in hist.resetWith : \A req \in ConfirmPosts(u[1], u[2]) :
        /\ Outcome(req) = "invalid_token"
        /\ After(req).users = users

(* C8: of two password_reset_confirm POSTs for the same account with the     *)
(* same valid token that run concurrently, at most one changes the password: *)
(* a request never writes a password under a token that a completed request  *)
(* has consumed.                                                             *)
C8_OneConcurrentReset ==
    [][SlowStep("reset_confirm_save_user", "reset_confirm_save_profile") =>
          <<slow.pk, slow.token>> \notin hist.resetWith]_vars

(* C9: Active is terminal: no step of signup, verify_email, login_view,      *)
(* password_reset_request or password_reset_confirm, in any interleaving,    *)
(* returns is_active or email_verified of an Active account to false.        *)
C9_ActiveIsTerminal ==
    [][\A pk \in Pks :
          (Active(pk) /\ hist'.adminEdits = hist.adminEdits) => Active(pk)']_vars

(* C10: changing the password invalidates the reset tokens issued before:    *)
(* once the password hash of an account has been changed, a                  *)
(* password_reset_confirm with a token issued for it before the change       *)
(* answers "invalid or expired".                                             *)
C10_PasswordChangeInvalidatesTokens ==
    \A u \in hist.outdated : \A req \in ConfirmPosts(u[1], u[2]) :
        Outcome(req) = "invalid_token"

\* A password_reset_confirm link opened (GET) with token t for account pk
ConfirmGet(pk, t) == ResetConfirmRequest(encode_uid(pk), t, "GET", <<>>, <<>>)

\* The reset tokens issued for pk that password_reset_confirm accepts now.
AcceptedResetTokens(pk) ==
    {t \in made : t.pk = pk /\ Outcome(ConfirmGet(pk, t)) = "form_shown"}

(* C11: at most one reset token per account is outstanding: once             *)
(* password_reset_request has issued a second token for an account, a        *)
(* password_reset_confirm with the earlier one answers "invalid or expired", *)
(* so of the tokens issued for an account at most one is accepted at any     *)
(* time.  (signup is the only place a verification token is made, so an      *)
(* account never has a second one.)                                          *)
C11_OneOutstandingResetToken ==
    \A pk \in Pks : Cardinality(AcceptedResetTokens(pk)) <= 1

\* The uids that name no account
MissingUids == {u \in UidInputs : GetByPk(users, decode_uid(u)) = 0}

(* C12: password_reset_request is presence-independent: the response to a    *)
(* request for an address that belongs to no account is the response to a    *)
(* request for an address that belongs to one, the success message "If an    *)
(* account exists with this email, ...".                                     *)
C12_ResetRequestPresenceIndependent ==
    \A present, absent \in EmailInputs :
        (ByEmail(users, Lower(present)) # {} /\ ByEmail(users, Lower(absent)) = {}) =>
            /\ Outcome(ResetRequestRequest(present)) = "sent"
            /\ Outcome(ResetRequestRequest(absent)) = Outcome(ResetRequestRequest(present))

(* C13: verify_email and password_reset_confirm answer a uid that names no   *)
(* account exactly as they answer an existing account presented with a      *)
(* token that fails check_token: both with the one "invalid or expired"      *)
(* outcome.                                                                  *)
C13_TokenErrorsHideMissingUser ==
    \A missing \in MissingUids : \A pk \in Pks : \A tok \in TokenInputs :
        /\ ~check_token("verify", pk, users[pk], tok, now) =>
              /\ Outcome(VerifyRequest(encode_uid(pk), tok)) = "invalid_token"
              /\ Outcome(VerifyRequest(missing, tok)) = "invalid_token"
        /\ ~check_token("reset", pk, users[pk], tok, now) =>
              /\ Outcome(ConfirmGet(pk, tok)) = "invalid_token"
              /\ Outcome(ResetConfirmRequest(missing, tok, "GET", <<>>, <<>>)) = "invalid_token"

\* The times a token may have been made at
IssueTimes == {0, now}

\* A token of one generator, made for this row at time T, passes the other
\* generator's check_token at time t.
CrossAccepted(pk, row, T, t) ==
    \/ check_token("reset", pk, row, make_token("verify", pk, row, T), t)
    \/ check_token("verify", pk, row, make_token("reset", pk, row, T), t)

\* No stored account has a token of one purpose that passes as the other.
TokensNotInterchangeable ==
    \A pk \in Pks : \A T \in IssueTimes : ~CrossAccepted(pk, users[pk], T, now)

\* The row with the text of its email in the password column: the two
\* _make_hash_value methods return the same string for it.
SameFieldRow(row) == [row EXCEPT !.password = EmailField(row.email)]

(* C14: the two token purposes are not interchangeable: a token of the       *)
(* verification generator never passes the reset generator's check_token,    *)
(* nor the other way round, and this rests on distinct purpose salts, not    *)
(* only on the field that feeds the hash: the tokens do not cross even for   *)
(* a row whose two fields hold the same text.                                *)
C14_PurposesNotInterchangeable ==
    /\ TokensNotInterchangeable
    /\ \A pk \in Pks : \A T \in IssueTimes :
          ~CrossAccepted(pk, SameFieldRow(users[pk]), T, now)

Hours(h) == h * 3600
Generators == {"verify", "reset"}

\* Ages at which a token must still pass (up to 23h59m), and must fail
\* (from 24h1s on).
FreshAges == {0, 1, Hours(12), Hours(24) - 60}
ExpiredAges == {Hours(24) + 1, Hours(24) + 2, Hours(48)}

EmailInUse(e) == \E k \in Pks : Lower(users[k].email) = Lower(e)

(* C16: email uniqueness: in every reachable state, after concurrent signups *)
(* for one address and after external provisioning included, no two accounts *)
(* have the same email compared case-insensitively, and a signup for an      *)
(* address in use is answered "an account with this email already exists"    *)
(* and creates no account.                                                   *)
C16_EmailUnique ==
    /\ \A p, q \in Pks : p # q => Lower(users[p].email) # Lower(users[q].email)
    /\ \A e \in SignupEmails : \A pp \in SignupPasswordPairs :
          EmailInUse(e) =>
              /\ Outcome(SignupRequest(e, pp[1], pp[2])) = "email_exists"
              /\ After(SignupRequest(e, pp[1], pp[2])).users = users

\* The error codes of the password fields and of clean()
PasswordErrors ==
    {"password_too_short", "password_no_upper", "password_no_lower", "password_no_digit",
     "password_no_special", "confirm_too_short", "password_mismatch"}

(* C17: validation failures are reported before any state mutation: a signup *)
(* rejected for a weak password, a mismatch or an address in use, and a      *)
(* password_reset_confirm POST rejected for a weak password or a mismatch,   *)
(* are answered with the form's error and leave every table and the mail log *)
(* as they were; the token presented is still accepted afterwards.           *)
C17_ValidationBeforeMutation ==
    /\ \A e \in SignupEmails : \A pp \in FormPairs :
          LET r == Run(World, SignupRequest(e, pp[1], pp[2]), now, TRUE)
          IN  (EmailInUse(e) \/ PasswordFormError(pp[1], pp[2]) # "ok") =>
                  /\ r.out \in PasswordErrors \cup {"email_exists"}
                  /\ r.w = World
    /\ \A t \in made :
          check_token("reset", t.pk, users[t.pk], t, now) =>
              \A pp \in FormPairs :
                  LET post == ResetConfirmRequest(encode_uid(t.pk), t, "POST", pp[1], pp[2])
                      r == Run(World, post, now, TRUE)
                  IN  PasswordResetFormError(pp[1], pp[2]) # "ok" =>
                          /\ r.out = PasswordResetFormError(pp[1], pp[2])
                          /\ r.w = World
                          /\ check_token("reset", t.pk, r.w.users[t.pk], t, now)

\* An account whose address is refused to a second signup, and whose reset
\* token is presented with a password that has no upper-case letter and with
\* two passwords that differ.
C17_Witness ==
    \E t \in made :
        /\ Outcome(SignupRequest(users[t.pk].email, PwStrong, PwStrong)) = "email_exists"
        /\ Outcome(ResetConfirmRequest(encode_uid(t.pk), t, "POST", PwWeak, PwWeak))
               = "password_no_upper"
        /\ Outcome(ResetConfirmRequest(encode_uid(t.pk), t, "POST", PwStrong2, PwStrong))
               = "password_mismatch"

\* (method, password, password_confirm) of the requests of C18
C18Forms == {<<"GET", <<>>, <<>>>>, <<"POST", PwStrong, PwStrong>>}

(* C18: password_reset_confirm with a token that fails check_token for the   *)
(* account of its uid answers "invalid or expired" and leaves the account    *)
(* unchanged: password hash, reset token and timestamp, is_active and        *)
(* email_verified keep their values, whatever form is posted.                *)
C18_InvalidTokenLeavesAccount ==
    \A pk \in Pks : \A tok \in TokenInputs : \A f \in C18Forms :
        LET r == Run(World, ResetConfirmRequest(encode_uid(pk), tok, f[1], f[2], f[3]),
                     now, TRUE)
        IN  ~check_token("reset", pk, users[pk], tok, now) =>
                /\ r.out = "invalid_token"
                /\ r.w = World

\* An account with a reset pending whose token has expired, and is refused
\* with a valid new password.
C18_Witness ==
    \E t \in made :
        /\ Len(profiles[t.pk]) = 1
        /\ profiles[t.pk][1].password_reset_token = t
        /\ users[t.pk].password = t.field
        /\ now - t.ts > PASSWORD_RESET_TIMEOUT
        /\ Outcome(ResetConfirmRequest(encode_uid(t.pk), t, "POST", PwStrong, PwStrong))
               = "invalid_token"

(* C19: verify_email on an Active account whose profile is already verified  *)
(* is a no-op answered "already verified", never an error, whatever token    *)
(* is presented: valid, expired, made for another purpose or malformed.      *)
C19_AlreadyVerifiedWhateverToken ==
    \A pk \in Pks : \A tok \in TokenInputs :
        Active(pk) =>
            /\ Outcome(VerifyRequest(encode_uid(pk), tok)) = "already_verified"
            /\ After(VerifyRequest(encode_uid(pk), tok)) = World

\* signup of address e with a compliant password, verify_email with the uid
\* of the new account and the token line 146 makes for it, after a delay,
\* then login with the same address and password: the three results.
EndToEnd(e, delay) ==
    LET pk == Len(users) + 1
        registered == Run(World, SignupRequest(e, PwStrong, PwStrong), now, TRUE)
        token == make_token("verify", pk, registered.w.users[pk], now)
        verified == Run(registered.w, VerifyRequest(encode_uid(pk), token), now + delay, TRUE)
        logged == Run(verified.w, LoginRequest(e, PwStrong), now + delay, TRUE)
    IN  [registered |-> registered, verified |-> verified, logged |-> logged]

\* The delays tried between signup and verify_email, all within 24 hours
VerifyDelays == {0, Hours(1), Hours(24) - 60}

(* C20: end to end: a signup with a fresh address and a compliant password   *)
(* leaves the account in PendingVerification; a verify_email with its uid    *)
(* and token within 24 hours makes it Active with email_verified true; a     *)
(* login with the address and password then succeeds.                        *)
C20_EndToEnd ==
    \A e \in SignupEmails : \A delay \in VerifyDelays :
        LET pk == Len(users) + 1
            run == EndToEnd(e, delay)
        IN  ~EmailInUse(e) =>
              /\ run.registered.out = "registered"
              /\ ~run.registered.w.users[pk].is_active
              /\ ~run.registered.w.profiles[pk][1].email_verified
              /\ run.verified.out = "verified"
              /\ run.verified.w.users[pk].is_active
              /\ run.verified.w.profiles[pk][1].email_verified
              /\ run.logged.out = "logged_in"
              /\ pk \in run.logged.w.sessions

\* What the three requests of C20 come to in the program.
EndToEndAsServed ==
    \A e \in SignupEmails : \A delay \in VerifyDelays :
        LET pk == Len(users) + 1
            run == EndToEnd(e, delay)
        IN  ~EmailInUse(e) =>
              /\ run.registered.out = "error"
              /\ ~run.registered.w.users[pk].is_active
              /\ run.registered.w.profiles[pk] = <<HookProfile>>
              /\ run.registered.w.mails = mails
              /\ run.verified.out = "already_verified"
              /\ run.verified.w = run.registered.w
              /\ run.logged.out = "not_active"
              /\ run.logged.w = run.registered.w

\* Mail m, attempted at time t, finds in tables w the account it is addressed
\* to, that account's profile and the token of its link stored in it.
Committed(w, m, t) ==
    \E pk \in 1..Len(w.users) :
        /\ w.users[pk].email = m.to
        /\ Len(w.profiles[pk]) = 1
        /\ m.kind = "verify" =>
               /\ w.profiles[pk][1].email_verification_token = m.token
               /\ w.profiles[pk][1].email_verification_created = t
        /\ m.kind = "reset" =>
               /\ w.profiles[pk][1].password_reset_token = m.token
               /\ w.profiles[pk][1].password_reset_created = t

\* Request req attempts its mail only with Committed state, and a send_mail
\* that raises leaves the tables as one that returns.
KeptWhenMailFails(req) ==
    LET sent == Run(World, req, now, TRUE)
        failed == Run(World, req, now, FALSE)
    IN  /\ \A m \in sent.w.mails \ mails : Committed(sent.w, m, now)
        /\ \A m \in failed.w.mails \ mails : Committed(failed.w, m, now)
        /\ failed.w = sent.w

MaxTyped == 7
CharClasses == {"U", "l", "d", "s", "o"}
\* "", "LongE" and "long": what "short1!", "LongEnough1!" and "longenough1"
\* are typed after
TypedSeeds == {<<>>, <<"U", "l", "l", "l", "U">>, <<"l", "l", "l", "l">>}
Short1 == <<"l", "l", "l", "l", "l", "d", "s">>
LongEnough1 == PwWeak
LongEnough1Bang == <<"U", "l", "l", "l", "U", "l", "l", "l", "l", "l", "d", "s">>

\* A password field is filled in one character at a time; slow.password is
\* the text so far and budget the keystrokes left.
InitForms ==
    /\ users = <<>>
    /\ profiles = <<>>
    /\ origin = <<>>
    /\ salts = 0
    /\ made = {}
    /\ mails = {}
    /\ sessions = {}
    /\ hist = [activations |-> <<>>, verified |-> <<>>, adminEdits |-> 0, resetWith |-> {},
               outdated |-> {}]
    /\ now = 0
    /\ \E seed \in TypedSeeds : slow = [IdleProc EXCEPT !.password = seed]
    /\ budget = MaxTyped

TypeCharacter(c) ==
    /\ budget > 0
    /\ budget' = budget - 1
    /\ slow' = [slow EXCEPT !.password = Append(@, c)]
    /\ UNCHANGED <<users, profiles, origin, salts, made, mails, sessions, hist, now>>

NextForms == \E c \in CharClasses : TypeCharacter(c)

SpecForms == InitForms /\ [][NextForms]_vars

\* The strength policy: at least 8 characters, and one of each of the four
\* classes among them.
StrengthPolicy(pw) ==
    /\ Len(pw) >= 8
    /\ \A c \in {"U", "l", "d", "s"} : \E i \in 1..Len(pw) : pw[i] = c

(* C22: the strength check of signup and the one of password_reset_confirm   *)
(* accept a password exactly when it has at least 8 characters and at least  *)
(* one upper-case letter, one lower-case letter, one digit and one special   *)
(* character; "short1!" and "longenough1" are refused, "LongEnough1!" is     *)
(* accepted.                                                                 *)
C22_PasswordStrength ==
    LET pw == slow.password
    IN  /\ clean_password(pw) = "ok" <=> StrengthPolicy(pw)
        /\ PasswordResetForm_clean_password(pw) = "ok" <=> StrengthPolicy(pw)
        /\ pw \in {Short1, LongEnough1} =>
               /\ PasswordFormError(pw, pw) # "ok"
               /\ PasswordResetFormError(pw, pw) # "ok"
        /\ pw = LongEnough1Bang =>
               /\ PasswordFormError(pw, pw) = "ok"
               /\ PasswordResetFormError(pw, pw) = "ok"

\* "LongEnough1!" has been typed and both forms accept it.
C22_Witness ==
    /\ slow.password = LongEnough1Bang
    /\ clean_password(slow.password) = "ok"
    /\ PasswordResetForm_clean_password(slow.password) = "ok"

(* ----------------------------- the uid codec -------------------------- *)
\* Python values: an int and the str of its digits are two values ('1' == 1
\* is False), None is a third.
PyInt(k) == [type |-> "int", repr |-> ToString(k)]
PyStr(text) == [type |-> "str", repr |-> text]
PyNone == [type |-> "NoneType", repr |-> "None"]

\* What decode_uid returns, as a Python value
Returned(uid) == IF uid.none THEN PyNone ELSE PyStr(uid.text)

\* The path segments that are the encoding of no account id: not base64,
\* base64 of a text that is no number, and the empty text's.
MalformedUids ==
    {u \in UidInputs \cup {[ok |-> TRUE, text |-> ""]} :
        \A k \in 0..(MaxUsers + 2) : u # encode_uid(k)}

(* C23: decode_uid(encode_uid(id)) is id, the value that was encoded, for    *)
(* every account's id; for every malformed input decode_uid returns its        *)
(* failure value, None, and raises nothing.                                  *)
C23_UidRoundTrip ==
    /\ \A id \in Pks : Returned(decode_uid(encode_uid(id))) = PyInt(id)
    /\ \A u \in MalformedUids : Returned(decode_uid(u)) = PyNone

\* What the codec does give: the digits of the id as a str, which
\* User.objects.get(pk=...) resolves to the account; for a malformed segment
\* either None or a text that get() answers with DoesNotExist or ValueError.
UidRoundTripAsText ==
    /\ \A id \in 1..MaxUsers :
          /\ Returned(decode_uid(encode_uid(id))) = PyStr(ToString(id))
          /\ id \in Pks => GetByPk(users, decode_uid(encode_uid(id))) = id
    /\ \A u \in MalformedUids :
          /\ Returned(decode_uid(u)).type \in {"NoneType", "str"}
          /\ GetByPk(users, decode_uid(u)) <= 0

(* ----------------------------- dashboards ----------------------------- *)
\* UserProfile.is_admin and UserProfile.is_email_verified
is_admin(profile) == profile.role = "admin"
is_email_verified(profile) == profile.email_verified

\* request.user.is_authenticated for the request that carries the session of
\* account pk; pk = 0 is a request with no session.  (Django also drops a
\* session whose account was deactivated or whose password changed: the
\* sessions counted here are a superset of those it accepts.)
is_authenticated(w, pk) == pk \in w.sessions

\* views.admin_dashboard with no test of the role
admin_dashboard_for_all(w, pk) ==
    IF ~is_authenticated(w, pk) THEN "redirect:login"
    ELSE IF Len(w.profiles[pk]) # 1 THEN "redirect:logout"
    ELSE "admin_dashboard.html"

\* views.dashboard, lines 493-507: login_required, then the profile's
\* email_verified; what is rendered or where the request is sent.
dashboard(w, pk) ==
    IF ~is_authenticated(w, pk) THEN "redirect:login"
    ELSE IF Len(w.profiles[pk]) # 1 THEN "redirect:logout"    \* DoesNotExist
    ELSE IF ~is_email_verified(w.profiles[pk][1]) THEN "redirect:verify_email_reminder"
    ELSE "dashboard.html"

\* views.admin_dashboard, lines 511-536 (and the admin_required decorator,
\* lines 71-88, which makes the same tests)
admin_dashboard(w, pk) ==
    IF ~is_authenticated(w, pk) THEN "redirect:login"
    ELSE IF Len(w.profiles[pk]) # 1 THEN "redirect:logout"
    ELSE IF ~is_admin(w.profiles[pk][1]) THEN "redirect:dashboard"
    ELSE "admin_dashboard.html"

\* UserProfileAdmin change form saved with role "admin" (what make_admin.py
\* does for one address).
AdminPromote(pk) ==
    /\ pk \in Pks
    /\ Len(profiles[pk]) = 1
    /\ profiles[pk][1].role = "user"
    /\ budget > 0
    /\ budget' = budget - 1
    /\ profiles' = ProfileUpdate(profiles, pk, [profiles[pk][1] EXCEPT !.role = "admin"])
    /\ UNCHANGED <<users, origin, salts, made, mails, sessions, hist, now, slow>>

\* The system with an administrator who also grants the admin role.
NextRoles ==
    \/ Next
    \/ \E pk \in Pks : AdminPromote(pk)

SpecRoles == Init /\ [][NextRoles]_vars

\* Who a dashboard request may come from: nobody, or any account's session
Visitors == {0} \cup Pks

(* C24: admin_dashboard is rendered only for a request whose session is     *)
(* authenticated and whose profile has role admin; dashboard only for an     *)
(* authenticated session whose profile has email_verified true; is_admin of  *)
(* a profile is true exactly when its role is admin.                         *)
C24_RoleGating ==
    /\ \A pk \in Visitors :
          /\ admin_dashboard(World, pk) = "admin_dashboard.html" =>
                 /\ pk \in sessions
                 /\ Len(profiles[pk]) = 1
                 /\ profiles[pk][1].role = "admin"
          /\ dashboard(World, pk) = "dashboard.html" =>
                 /\ pk \in sessions
                 /\ Len(profiles[pk]) = 1
                 /\ profiles[pk][1].email_verified
    /\ \A pk \in Pks : \A i \in 1..Len(profiles[pk]) :
          is_admin(profiles[pk][i]) <=> profiles[pk][i].role = "admin"

\* An admin is shown both dashboards, an account without a session is sent
\* to the login page by both, and so is a request with no session at all.
C24_Witness ==
    /\ \E pk \in sessions :
          /\ admin_dashboard(World, pk) = "admin_dashboard.html"
          /\ dashboard(World, pk) = "dashboard.html"
    /\ \E pk \in Pks \ sessions : admin_dashboard(World, pk) = "redirect:login"
    /\ admin_dashboard(World, 0) = "redirect:login"
    /\ dashboard(World, 0) = "redirect:login"

\* The other two answers of the dashboards: a logged-in account without the
\* role, and one whose email_verified was unticked after it logged in.
SentAway ==
    \E pk \in sessions :
        \/ admin_dashboard(World, pk) = "redirect:dashboard"
        \/ dashboard(World, pk) = "redirect:verify_email_reminder"

\* password_reset_confirm posted now with reset token t and a new password
ResetNow(t) ==
    Run(World, ResetConfirmRequest(encode_uid(t.pk), t, "POST", PwStrong2, PwStrong2), now, TRUE)

(* C25: a password change invalidates the email verification token: the      *)
(* token signup made for an account, accepted by check_token before a        *)
(* password_reset_confirm changes the account's password, is refused by      *)
(* check_token after it.                                                     *)
C25_PasswordChangeKillsVerifyToken ==
    \A t \in made :
        LET pk == t.pk
            r == ResetNow(t)
        IN  (/\ origin[pk] = "signup"
             /\ check_token("verify", pk, users[pk], SignupToken(pk), now)
             /\ r.out = "reset_ok"
             /\ r.w.users[pk].password # users[pk].password)
            => ~check_token("verify", pk, r.w.users[pk], SignupToken(pk), now)

\* What the program does: the verification hash is made of pk, timestamp and
\* email, so the token passes check_token after the reset as before it.
VerifyTokenOutlivesReset ==
    \A t \in made :
        LET pk == t.pk
            r == ResetNow(t)
        IN  (origin[pk] = "signup" /\ r.out = "reset_ok") =>
                (check_token("verify", pk, r.w.users[pk], SignupToken(pk), now)
                     <=> check_token("verify", pk, users[pk], SignupToken(pk), now))

\* The tokens the server has computed, each made for the account tok.pk
ComputedTokens == {tok \in TokenInputs : tok.wf}

\* Token tok presented to the two views with the uid of account pk
VerifyWith(pk, tok) == Run(World, VerifyRequest(encode_uid(pk), tok), now, TRUE)
ConfirmWith(pk, tok) ==
    Run(World, ResetConfirmRequest(encode_uid(pk), tok, "POST", PwStrong2, PwStrong2), now, TRUE)

\* Among accounts whose ids have one digit a token is refused with any uid
\* but its own account's, and the refusal changes nothing.
UserSpecificForOneDigitIds ==
    \A tok \in ComputedTokens : \A B \in Pks \ {tok.pk} :
        LET v == VerifyWith(B, tok)
            c == ConfirmWith(B, tok)
        IN  /\ ~check_token("verify", B, users[B], tok, now)
            /\ ~check_token("reset", B, users[B], tok, now)
            /\ v.out = "invalid_token"
            /\ v.w = World
            /\ c.out = "invalid_token"
            /\ c.w = World

(* ------------------------- the tokens as texts ------------------------- *)
\* six.text_type of a non-negative int: its decimal digits
DigitChars == <<"0", "1", "2", "3", "4", "5", "6", "7", "8", "9">>
RECURSIVE Decimal(_)
Decimal(n) ==
    IF n < 10 THEN <<DigitChars[n + 1]>>
    ELSE Decimal(n \div 10) \o <<DigitChars[(n % 10) + 1]>>

\* Accounts as the generators see them: the id, the address and the password
\* hash ("pbkdf2_sha256$...", here "p$" and a salt), each a text.
TextAccounts ==
    {[pk |-> 1, email |-> <<"1", "8", "b", "@", "x">>, password |-> <<"p", "$", "1">>],
     [pk |-> 2, email |-> <<"c", "@", "x">>, password |-> <<"p", "$", "2">>],
     [pk |-> 18, email |-> <<"1", "b", "@", "x">>, password |-> <<"p", "$", "3">>],
     [pk |-> 181, email |-> <<"b", "@", "x">>, password |-> <<"p", "$", "4">>]}

\* The clock of _num_seconds: seconds since 2001-01-01.  The behaviours start
\* on 2026-12-05, two seconds before 818181818.
FirstSecond == 818181816

\* EmailVerificationTokenGenerator._make_hash_value and
\* PasswordResetTokenGeneratorCustom._make_hash_value: the three texts joined
\* with nothing between them
hash_text(gen, acct, timestamp) ==
    Decimal(acct.pk) \o Decimal(timestamp)
        \o (IF gen = "verify" THEN acct.email ELSE acct.password)

\* _make_token_with_timestamp: the timestamp and the HMAC of the hash text
\* under the generator's key salt; equal texts are what give equal HMACs.
token_text(gen, acct, timestamp) ==
    [wf |-> TRUE, ts |-> timestamp, salt |-> key_salt(gen),
     mac |-> hash_text(gen, acct, timestamp)]

\* check_token for the account the view loaded, at time t
check_token_text(gen, acct, token, t) ==
    /\ token.wf
    /\ token_text(gen, acct, token.ts) = token
    /\ ~(t - token.ts > PASSWORD_RESET_TIMEOUT)

InitTokens ==
    /\ users = <<>>
    /\ profiles = <<>>
    /\ origin = <<>>
    /\ salts = 0
    /\ made = {}
    /\ mails = {}
    /\ sessions = {}
    /\ hist = [activations |-> <<>>, verified |-> <<>>, adminEdits |-> 0, resetWith |-> {},
               outdated |-> {}]
    /\ now = FirstSecond
    /\ slow = IdleProc
    /\ budget = MaxOps

\* signup (gen = "verify") or password_reset_request (gen = "reset") makes
\* a token for account acct; mails keeps it with the account it was made for.
IssueToken(gen, acct) ==
    /\ budget > 0
    /\ budget' = budget - 1
    /\ mails' = mails \cup {[to |-> acct.email, kind |-> gen, pk |-> acct.pk,
                              token |-> token_text(gen, acct, now)]}
    /\ UNCHANGED <<users, profiles, origin, salts, made, sessions, hist, now, slow>>

\* verify_email (op = "verify") or password_reset_confirm (op =
\* "reset_confirm") is called with the uid of account acct and the token of
\* mail m, and has loaded the account: slow is the request at its check_token.
PresentToken(op, acct, m) ==
    /\ m \in mails
    /\ slow' = [IdleProc EXCEPT !.op = op, !.pk = acct.pk, !.user = acct, !.token = m.token]
    /\ UNCHANGED <<users, profiles, origin, salts, made, mails, sessions, hist, now, budget>>

NextSecond ==
    /\ budget > 0
    /\ budget' = budget - 1
    /\ now' = now + 1
    /\ UNCHANGED <<users, profiles, origin, salts, made, mails, sessions, hist, slow>>

NextTokens ==
    \/ \E gen \in Generators, acct \in TextAccounts : IssueToken(gen, acct)
    \/ \E op \in {"verify", "reset_confirm"}, acct \in TextAccounts, m \in mails :
          PresentToken(op, acct, m)
    \/ NextSecond

SpecTokens == InitTokens /\ [][NextTokens]_vars

\* The generator whose check_token the view of request rec calls
GeneratorOf(rec) == IF rec.op = "verify" THEN "verify" ELSE "reset"

\* The request in flight presents a token with the uid of an account it was
\* not made for.
ForeignToken == \E m \in mails : m.token = slow.token /\ m.pk # slow.pk

(* C26: tokens are user-specific: a verification or reset token made for     *)
(* account A, presented to verify_email or password_reset_confirm with the   *)
(* uid of another account B, never passes check_token, so it can neither     *)
(* activate B nor change B's password.                                       *)
C26_TokensUserSpecific ==
    (slow.op \in {"verify", "reset_confirm"} /\ ForeignToken)
        => ~check_token_text(GeneratorOf(slow), slow.user, slow.token, now)

\* What does hold: a reset token passes check_token for no account but its
\* own, and a verification token for no account whose id has as many digits
\* as its own account's.
UserSpecificAsBuilt ==
    \A m \in mails : \A acct \in TextAccounts :
        (/\ acct.pk # m.pk
         /\ m.kind = "reset" \/ Len(Decimal(acct.pk)) = Len(Decimal(m.pk)))
        => /\ ~check_token_text("reset", acct, m.token, now)
           /\ ~check_token_text("verify", acct, m.token, now)

LoginStep ==
    \/ slow.op = "login" /\ slow.pc # "idle" /\ slow' # slow
    \/ sessions' \ sessions # {}

(* C28: login is a guarded read: whether it succeeds or fails, no step of it *)
(* changes a field of an account or of a profile (password hash, is_active,  *)
(* email_verified, role, the two tokens and their timestamps); a success     *)
(* only creates a session.                                                   *)
C28_LoginOnlyReads ==
    [][LoginStep => (users' = users /\ profiles' = profiles)]_vars

\* A login served without interruption leaves every modelled column as it
\* was (it writes last_login, and the profile row with the values it has
\* just read), and changes the sessions only when it answers "logged_in".
LoginServedWholeOnlyReads ==
    \A e \in EmailInputs : \A pw \in LoginPasswords :
        LET r == Run(World, LoginRequest(e, pw), now, TRUE)
        IN  /\ r.w.users = users
            /\ r.w.profiles = profiles
            /\ r.out # "logged_in" => r.w = World
            /\ r.out = "logged_in" =>
                   r.w = [World EXCEPT !.sessions = @ \cup {GetByEmail(users, Lower(e))}]

\* The addresses of no account, and the passwords that are not account pk's
UnknownEmails == {e \in EmailInputs : ByEmail(users, Lower(e)) = {}}
WrongPasswords(pk) == {pw \in LoginPasswords : ~check_password(pw, users[pk].password)}

(* C29: login does not reveal whether an email exists: for every account,    *)
(* whatever its is_active and email_verified, a login with its address and   *)
(* a wrong password is answered as a login with an address of no account.    *)
C29_LoginHidesExistence ==
    \A pk \in Pks : \A pw \in WrongPasswords(pk) : \A e \in UnknownEmails :
        Outcome(LoginRequest(users[pk].email, pw)) = Outcome(LoginRequest(e, pw))

\* What login_view gives: the answer of an unknown address for an Active
\* account only; "not active" or "not verified" for the others, before any
\* password is looked at.
LoginAnswersByState ==
    \A pk \in Pks : \A pw \in WrongPasswords(pk) : \A e \in UnknownEmails :
        LET known == Outcome(LoginRequest(users[pk].email, pw))
        IN  /\ Outcome(LoginRequest(e, pw)) = "invalid_credentials"
            /\ Active(pk) => known = "invalid_credentials"
            /\ ~users[pk].is_active => known = "not_active"
            /\ (users[pk].is_active /\ ~Active(pk)) => known = "not_verified"

\* The columns a password reset has no business with
Untouched(user, profile) ==
    [is_active |-> user.is_active, email |-> user.email,
     email_verified |-> profile.email_verified, role |-> profile.role,
     email_verification_token |-> profile.email_verification_token,
     email_verification_created |-> profile.email_verification_created]

\* Tables v differ from tables w at most in reset tokens and their
\* timestamps, and in password hashes too when passwords is TRUE.
OnlyResetState(w, v, passwords) ==
    /\ Len(v.users) = Len(w.users)
    /\ \A pk \in 1..Len(w.users) :
          /\ Len(v.profiles[pk]) = Len(w.profiles[pk])
          /\ \A i \in 1..Len(w.profiles[pk]) :
                Untouched(v.users[pk], v.profiles[pk][i])
                    = Untouched(w.users[pk], w.profiles[pk][i])
          /\ passwords \/ v.users[pk].password = w.users[pk].password

\* A step of a password_reset_request or password_reset_confirm request,
\* served whole or resumed after a preemption
ResetRequestStep ==
    \/ slow.op = "reset_request" /\ slow.pc # "idle" /\ slow' # slow
    \/ \E e \in EmailInputs : password_reset_request(e)
ResetConfirmStep ==
    \/ slow.op = "reset_confirm" /\ slow.pc # "idle" /\ slow' # slow
    \/ \E c \in ConfirmInputs :
          password_reset_confirm(c[1][1], c[1][2], c[2][1], c[2][2], c[2][3])

(* C30: the reset operations touch only reset state: no step of              *)
(* password_reset_request changes anything but a reset token and its         *)
(* timestamp, no step of password_reset_confirm anything but the password    *)
(* hash, the reset token and its timestamp; is_active, email_verified, role  *)
(* and the verification token stay as they are, so a password reset never    *)
(* activates or verifies an account.                                         *)
C30_ResetTouchesOnlyResetState ==
    [][/\ ResetRequestStep => OnlyResetState(World, World', FALSE)
       /\ ResetConfirmStep => OnlyResetState(World, World', TRUE)]_vars

\* The same for requests served without interruption: there it holds.
ResetServedWholeTouchesOnlyResetState ==
    /\ \A e \in EmailInputs :
          OnlyResetState(World, After(ResetRequestRequest(e)), FALSE)
    /\ \A t \in made : OnlyResetState(World, ResetNow(t).w, TRUE)

(* ---------------------- the two password validators ------------------- *)
(* C33: SignupForm.clean_password and PasswordResetForm.clean_password make  *)
(* the same decision on every password: both accept it, or both refuse it,   *)
(* and then with the same error code.                                         *)
C33_ValidatorsEquivalent ==
    clean_password(slow.password) = PasswordResetForm_clean_password(slow.password)

\* Eight characters or more with a letter of each case and a special
\* character but no digit have been typed, and both validators refuse them
\* for the missing digit.
C33_Witness ==
    /\ Len(slow.password) >= MinPasswordLength
    /\ HasClass(slow.password, "U")
    /\ HasClass(slow.password, "l")
    /\ HasClass(slow.password, "s")
    /\ clean_password(slow.password) = "password_no_digit"
    /\ PasswordResetForm_clean_password(slow.password) = "password_no_digit"

(* ------------------------------- roles -------------------------------- *)
\* UserProfileAdmin change form saved with role "user" for an account that
\* had been given role "admin": the administrator takes the role back.
AdminDemote(pk) ==
    /\ pk \in Pks
    /\ Len(profiles[pk]) = 1
    /\ profiles[pk][1].role = "admin"
    /\ profiles' = ProfileUpdate(profiles, pk, [profiles[pk][1] EXCEPT !.role = "user"])
    /\ UNCHANGED <<users, origin, salts, made, mails, sessions, hist, now, slow, budget>>

\* The system with an administrator who grants the admin role and takes it back.
NextRevocation ==
    \/ NextRoles
    \/ \E pk \in Pks : AdminDemote(pk)

SpecRevocation == Init /\ [][NextRevocation]_vars

\* A step of the administrator on a role
AdminRoleEdit == \E pk \in Pks : AdminPromote(pk) \/ AdminDemote(pk)

\* The rows the step inserts have role user.
CreatedAsUser ==
    \A pk \in 1..Len(profiles') : \A i \in 1..Len(profiles'[pk]) :
        (pk \notin Pks \/ i > Len(profiles[pk])) => profiles'[pk][i].role = "user"

\* The step leaves the role of every row as it was.
RolesKept ==
    \A pk \in Pks : \A i \in 1..Len(profiles[pk]) :
        /\ i <= Len(profiles'[pk])
        /\ profiles'[pk][i].role = profiles[pk][i].role

\* The step takes no account with role user through the admin gate.
GateKept ==
    \A pk \in Pks :
        (\A i \in 1..Len(profiles[pk]) : profiles[pk][i].role = "user")
        => admin_dashboard(World', pk) # "admin_dashboard.html"

(* C31: every profile that signup or the provisioning of an external         *)
(* identity creates has role user, and no step of signup, verify_email,      *)
(* login, logout, password_reset_request or password_reset_confirm, served   *)
(* whole or preempted, changes the role of a profile: only the administrator *)
(* does, so no request takes an account with role user through the admin     *)
(* gate.                                                                      *)
C31_NoPrivilegeEscalation ==
    [][/\ CreatedAsUser
       /\ ~AdminRoleEdit => (RolesKept /\ GateKept)]_vars

\* The part about the gate alone: it is a request that makes an account
\* whose role had been taken back pass the admin gate.  This does not hold.
RevokedStaysOut == [][~AdminRoleEdit => GateKept]_vars

\* What holds: in the system whose administrator never grants the role,
\* every row, and every copy of a row a preempted request holds, has role
\* user and admin_dashboard is rendered for nobody.
RolesStayUserWithoutGrants ==
    /\ \A pk \in Pks : \A i \in 1..Len(profiles[pk]) : profiles[pk][i].role = "user"
    /\ slow.profile # NoProfile => slow.profile.role = "user"
    /\ \A pk \in Visitors : admin_dashboard(World, pk) # "admin_dashboard.html"

\* And with grants and no revocation the rows a step creates have role user.
CreatedAsUserAlways == [][CreatedAsUser]_vars

(* ------------------------------ sessions ------------------------------ *)
\* The password a login that completes in this step was posted with: the
\* preempted login's, or any of those tried when the view is served whole.
PostedPasswords ==
    IF slow.op = "login" /\ slow' # slow THEN {slow.password} ELSE LoginPasswords

\* The tables as the step that creates the session of pk leaves them (the
\* login's own save of the profile has been made) allow the login: the
\* account is active, its email is verified, the password matches.
LoginAllowedNow(pk) ==
    /\ users'[pk].is_active
    /\ Len(profiles'[pk]) = 1
    /\ profiles'[pk][1].email_verified
    /\ \E pw \in PostedPasswords : check_password(pw, users'[pk].password)

\* Both protected views send a request of pk to the login page.
Denied(w, pk) ==
    /\ dashboard(w, pk) = "redirect:login"
    /\ admin_dashboard(w, pk) = "redirect:login"

\* UserProfileAdmin change form saved with "email verified" unticked, by an
\* administrator who does so as often as the operations left allow.
AdminUnverifyAgain(pk) ==
    /\ pk \in Pks
    /\ Len(profiles[pk]) = 1
    /\ profiles[pk][1].email_verified
    /\ budget > 0
    /\ budget' = budget - 1
    /\ profiles' = ProfileUpdate(profiles, pk, [profiles[pk][1] EXCEPT !.email_verified = FALSE])
    /\ hist' = [hist EXCEPT !.adminEdits = Bump(@)]
    /\ UNCHANGED <<users, origin, salts, made, mails, sessions, now, slow>>

NextSessions ==
    \/ Next
    \/ \E pk \in Pks : AdminUnverifyAgain(pk)

SpecSessions == Init /\ [][NextSessions]_vars

(* C32: a session is authenticated only from a successful login to the next  *)
(* logout: a step creates the session of an account only when, at that       *)
(* moment, the account is active, its email is verified and the password     *)
(* posted matches, and only by a login; an account without a session, after  *)
(* a logout in particular, is sent to the login page by dashboard and by     *)
(* admin_dashboard until a login creates a session again.                    *)
C32_SessionDiscipline ==
    [][/\ \A pk \in sessions' \ sessions : LoginStep /\ LoginAllowedNow(pk)
       /\ \A pk \in sessions \ sessions' : logout_view(pk)
       /\ \A pk \in Pks \ sessions' : Denied(World', pk)]_vars

\* What holds under SpecSessions too: only a login creates a session, only
\* a logout ends it, and an account without a session is sent to the login
\* page by both protected views.
SessionsFromLoginToLogout ==
    [][/\ \A pk \in sessions' \ sessions : LoginStep
       /\ \A pk \in sessions \ sessions' : logout_view(pk)
       /\ \A pk \in Pks \ sessions' : Denied(World', pk)]_vars

\* What holds for a login served whole: it answers "logged_in" only for an
\* active account with a verified email and the matching password, and a
\* logout is followed by the login page on both protected views.
LoginServedWholeDiscipline ==
    /\ \A e \in EmailInputs : \A pw \in LoginPasswords :
          LET r == Run(World, LoginRequest(e, pw), now, TRUE)
              pk == GetByEmail(users, Lower(e))
          IN  /\ r.out = "logged_in" =>
                     /\ pk > 0
                     /\ users[pk].is_active
                     /\ Len(profiles[pk]) = 1
                     /\ profiles[pk][1].email_verified
                     /\ check_password(pw, users[pk].password)
                     /\ r.w.sessions = sessions \cup {pk}
              /\ r.out # "logged_in" => r.w.sessions = sessions
    /\ \A pk \in Pks \ sessions : Denied(World, pk)
    /\ \A pk \in sessions : Denied([World EXCEPT !.sessions = @ \ {pk}], pk)

====
